---- MODULE Spec2Model ----
(***************************************************************************)
(* A model of getdata.py, the NeurIPS proceedings crawler.                 *)
(*                                                                         *)
(* Python strings are sequences of one-character strings, so that split,   *)
(* rsplit, replace, strip and int are computed character by character.     *)
(* Three specifications share the variables:                               *)
(*   Spec      main(): the per-year loop, its fetches and its file writes  *)
(*   SpecLinks the URL derivation of get_paper_paths on one anchor href    *)
(*   SpecYears get_latest_conference_year on the root page's list items    *)
(***************************************************************************)
EXTENDS Integers, Sequences, FiniteSets, TLC

VARIABLES
    pc,          \* position of the process / of the function applied
    argv,        \* the command line: start_year, end_year, output_dir
    rootItems,   \* texts of the <li> items of the root index page
    outExists,   \* os.path.exists(output_dir) when main() asks
    args,        \* the namespace get_args() returned
    year,        \* loop variable of main()
    papers,      \* the four aligned lists get_paper_paths() returned
    abstract,    \* locals of the per-paper body
    metadata,
    pdf,
    dirs,        \* directories this run created
    files,       \* path -> content of the files this run opened for writing
    log,         \* the requests and filesystem calls made so far, in order
    exitStatus,  \* what the process ended with
    href,        \* SpecLinks: the anchor href under derivation
    hrefId,      \* SpecLinks: the <id> the href was built around
    links,       \* SpecLinks: the record derived from href
    latest       \* SpecYears: the year get_latest_conference_year returned

vars == <<pc, argv, rootItems, outExists, args, year, papers, abstract,
          metadata, pdf, dirs, files, log, exitStatus, href, hrefId, links,
          latest>>

(***************************************************************************)
(* Python's str methods, on sequences of characters.                       *)
(***************************************************************************)
None == "None"

Whitespace == {" ", "\t", "\n"}

Digits == {"0", "1", "2", "3", "4", "5", "6", "7", "8", "9"}

DigitVal(c) ==
    CASE c = "0" -> 0 [] c = "1" -> 1 [] c = "2" -> 2 [] c = "3" -> 3
      [] c = "4" -> 4 [] c = "5" -> 5 [] c = "6" -> 6 [] c = "7" -> 7
      [] c = "8" -> 8 [] c = "9" -> 9

\* s[i:] of Python, 1-based here
From(s, i) == SubSeq(s, i, Len(s))

StartsWith(s, p) == Len(p) <= Len(s) /\ SubSeq(s, 1, Len(p)) = p

EndsWith(s, p) == Len(p) <= Len(s) /\ SubSeq(s, Len(s) - Len(p) + 1, Len(s)) = p

Contains(s, p) == \E i \in 1..(Len(s) - Len(p) + 1) : SubSeq(s, i, i + Len(p) - 1) = p

\* sep.join(parts)
RECURSIVE Join(_, _)
Join(parts, sep) ==
    IF parts = <<>> THEN <<>>
    ELSE IF Len(parts) = 1 THEN parts[1]
    ELSE parts[1] \o sep \o Join(Tail(parts), sep)

\* s.split(c) for a one-character separator c: always at least one part
RECURSIVE SplitAcc(_, _, _)
SplitAcc(s, c, cur) ==
    IF s = <<>> THEN <<cur>>
    ELSE IF Head(s) = c THEN <<cur>> \o SplitAcc(Tail(s), c, <<>>)
    ELSE SplitAcc(Tail(s), c, Append(cur, Head(s)))

Split(s, c) == SplitAcc(s, c, <<>>)

\* s.split(): the maximal runs of non-whitespace, none of them empty
RECURSIVE SplitWsAcc(_, _)
SplitWsAcc(s, cur) ==
    IF s = <<>> THEN (IF cur = <<>> THEN <<>> ELSE <<cur>>)
    ELSE IF Head(s) \in Whitespace
         THEN (IF cur = <<>> THEN <<>> ELSE <<cur>>) \o SplitWsAcc(Tail(s), <<>>)
    ELSE SplitWsAcc(Tail(s), Append(cur, Head(s)))

SplitWs(s) == SplitWsAcc(s, <<>>)

\* s.rsplit(c, 1): split once, at the last c
RSplit1(s, c) ==
    IF \E i \in 1..Len(s) : s[i] = c
    THEN LET k == CHOOSE i \in 1..Len(s) :
                      s[i] = c /\ \A j \in (i + 1)..Len(s) : s[j] # c
         IN  <<SubSeq(s, 1, k - 1), From(s, k + 1)>>
    ELSE <<s>>

\* s.replace(old, new): every non-overlapping occurrence, left to right
RECURSIVE Replace(_, _, _)
Replace(s, old, new) ==
    IF s = <<>> THEN <<>>
    ELSE IF StartsWith(s, old) THEN new \o Replace(From(s, Len(old) + 1), old, new)
    ELSE <<Head(s)>> \o Replace(Tail(s), old, new)

\* s.strip(chars)
RECURSIVE LStrip(_, _)
LStrip(s, chars) ==
    IF s # <<>> /\ Head(s) \in chars THEN LStrip(Tail(s), chars) ELSE s

RECURSIVE RStrip(_, _)
RStrip(s, chars) ==
    IF s # <<>> /\ s[Len(s)] \in chars
    THEN RStrip(SubSeq(s, 1, Len(s) - 1), chars) ELSE s

Strip(s, chars) == RStrip(LStrip(s, chars), chars)

RECURSIVE DecimalAcc(_, _)
DecimalAcc(s, acc) ==
    IF s = <<>> THEN acc ELSE DecimalAcc(Tail(s), 10 * acc + DigitVal(Head(s)))

\* int(s) for a token free of whitespace: an optional sign, then digits.
\* raised is "ValueError" where Python raises it.
PyInt(s) ==
    LET body == IF s # <<>> /\ Head(s) \in {"+", "-"} THEN Tail(s) ELSE s
    IN  IF body # <<>> /\ \A i \in 1..Len(body) : body[i] \in Digits
        THEN [raised |-> None,
              val |-> IF Head(s) = "-" THEN 0 - DecimalAcc(body, 0)
                      ELSE DecimalAcc(body, 0)]
        ELSE [raised |-> "ValueError", val |-> 0]

\* str(n) for n >= 0
DigitChar(d) == CHOOSE c \in Digits : DigitVal(c) = d

RECURSIVE PyStr(_)
PyStr(n) == IF n < 10 THEN <<DigitChar(n)>> ELSE PyStr(n \div 10) \o <<DigitChar(n % 10)>>

(***************************************************************************)
(* get_latest_conference_year                                              *)
(***************************************************************************)
FallbackYear == 2023

\* the body of the try: int(item.text.split()[-1].strip('()'))
ItemYear(text) ==
    LET toks == SplitWs(text)
    IN  IF toks = <<>> THEN [raised |-> "IndexError", val |-> 0]
        ELSE PyInt(Strip(toks[Len(toks)], {"(", ")"}))

\* except ValueError only: an item without a token escapes
CaughtByResolverValueErrorOnly == {"ValueError"}

\* except (ValueError, IndexError): continue
CaughtByResolver == {"ValueError", "IndexError"}

\* the loop: years.append(year), or continue; what is not caught escapes
RECURSIVE CollectYears(_, _)
CollectYears(items, years) ==
    IF items = <<>> THEN [raised |-> None, val |-> years]
    ELSE LET r == ItemYear(Head(items))
         IN  IF r.raised = None
             THEN CollectYears(Tail(items), Append(years, r.val))
             ELSE IF r.raised \in CaughtByResolver
             THEN CollectYears(Tail(items), years)
             ELSE [raised |-> r.raised, val |-> years]

RECURSIVE PyMax(_)
PyMax(xs) ==
    IF Len(xs) = 1 THEN xs[1]
    ELSE LET m == PyMax(Tail(xs)) IN IF xs[1] >= m THEN xs[1] ELSE m

\* [raised |-> None or the exception that escapes, val |-> the year returned]
get_latest_conference_year(items) ==
    LET c == CollectYears(items, <<>>)
    IN  IF c.raised # None THEN [raised |-> c.raised, val |-> 0]
        ELSE [raised |-> None,
              val |-> IF c.val # <<>> THEN PyMax(c.val) ELSE FallbackYear]

(***************************************************************************)
(* get_paper_paths: the derivation made for one <li><a href=...>           *)
(***************************************************************************)
base_url == <<"h", "t", "t", "p", "s", ":", "/", "/", "p", "a", "p", "e", "r",
              "s", ".", "n", "i", "p", "s", ".", "c", "c">>

sAbstract == <<"A", "b", "s", "t", "r", "a", "c", "t">>
sMetadata == <<"M", "e", "t", "a", "d", "a", "t", "a">>
sPaper == <<"P", "a", "p", "e", "r">>
sHash == <<"h", "a", "s", "h">>
sFile == <<"f", "i", "l", "e">>
sJson == <<".", "j", "s", "o", "n">>
sPdf == <<".", "p", "d", "f">>
sHtml == <<".", "h", "t", "m", "l">>

\* paper_temp_url.split("/")[-1].split("-")[0]
PaperId(h) ==
    LET segs == Split(h, "/")
    IN  Split(segs[Len(segs)], "-")[1]

\* f"{base_url}{paper_temp_url.rsplit('.', 1)[0]}"
PaperBaseUrl(h) == base_url \o RSplit1(h, ".")[1]

\* the metadata URL without the .replace('hash', 'file')
MetadataPathKeepsHash(h) ==
    Replace(PaperBaseUrl(h), sAbstract, sMetadata) \o sJson

MetadataPath(h) ==
    Replace(Replace(PaperBaseUrl(h), sAbstract, sMetadata), sHash, sFile) \o sJson

PdfPath(h) ==
    Replace(Replace(PaperBaseUrl(h), sAbstract, sPaper), sHash, sFile) \o sPdf

DeriveLinks(h) ==
    [paper_id |-> PaperId(h),
     abstract_path |-> base_url \o h,
     metadata_path |-> MetadataPath(h),
     pdf_path |-> PdfPath(h)]

(***************************************************************************)
(* Python values and json.dump(value, f, indent=4)                         *)
(***************************************************************************)
PyNone == [t |-> "None", v |-> <<>>]
PyString(s) == [t |-> "str", v |-> s]
PyBytes(b) == [t |-> "bytes", v |-> b]
PyList(xs) == [t |-> "list", v |-> xs]
\* a dict is its items in insertion order, each [k |-> key, val |-> value]
PyDict(kvs) == [t |-> "dict", v |-> kvs]

RECURSIVE Spaces(_)
Spaces(n) == IF n = 0 THEN <<>> ELSE <<" ">> \o Spaces(n - 1)

JsonIndent == 4

RECURSIVE JsonDump(_, _)
JsonDump(x, depth) ==
    LET inner == Spaces(JsonIndent * (depth + 1))
        outer == Spaces(JsonIndent * depth)
        sep == <<",", "\n">> \o inner
    IN  CASE x.t = "str" -> <<"\"">> \o x.v \o <<"\"">>
          [] x.t = "None" -> <<"n", "u", "l", "l">>
          [] x.t = "list" ->
                IF x.v = <<>> THEN <<"[", "]">>
                ELSE <<"[", "\n">> \o inner
                     \o Join([i \in 1..Len(x.v) |-> JsonDump(x.v[i], depth + 1)], sep)
                     \o <<"\n">> \o outer \o <<"]">>
          [] x.t = "dict" ->
                IF x.v = <<>> THEN <<"{", "}">>
                ELSE <<"{", "\n">> \o inner
                     \o Join([i \in 1..Len(x.v) |->
                                <<"\"">> \o x.v[i].k \o <<"\"", ":", " ">>
                                \o JsonDump(x.v[i].val, depth + 1)], sep)
                     \o <<"\n">> \o outer \o <<"}">>

json_dump(x) == JsonDump(x, 0)

(***************************************************************************)
(* The three per-paper fetchers, as functions of the HTTP outcome.         *)
(* A response is [raised |-> None or the exception requests.get raised,    *)
(*                status |-> the status code, body |-> the page].          *)
(* A result is [raised |-> None or the exception that escapes,             *)
(*              value |-> the Python value returned].                      *)
(***************************************************************************)
Returned(x) == [raised |-> None, value |-> x]
Raised(e) == [raised |-> e, value |-> PyNone]

sTitle == <<"t", "i", "t", "l", "e">>
sAuthors == <<"a", "u", "t", "h", "o", "r", "s">>
sAbstractKey == <<"a", "b", "s", "t", "r", "a", "c", "t">>

\* body: [h4 |-> the page has <h4>Abstract</h4> followed by a <p>,
\*        para |-> that paragraph's text, has_title |-> the citation_title
\*        meta tag is there, title, authors |-> the citation_author contents]
get_abstract(resp) ==
    IF resp.raised # None THEN Raised(resp.raised)
    ELSE IF resp.status # 200 THEN Returned(PyString(<<>>))
    ELSE IF ~resp.body.h4 THEN Raised("AttributeError")
    ELSE IF ~resp.body.has_title THEN Raised("TypeError")
    ELSE Returned(PyDict(<<
            [k |-> sTitle, val |-> PyString(resp.body.title)],
            [k |-> sAuthors,
             val |-> PyList([i \in 1..Len(resp.body.authors) |->
                               PyString(resp.body.authors[i])])],
            [k |-> sAbstractKey,
             val |-> PyString(Join(SplitWs(resp.body.para), <<" ">>))]>>))

\* get_metadata with get_abstract's sentinel: "" on a non-success status
get_metadataReturnsEmptyString(resp) ==
    IF resp.raised # None THEN Raised(resp.raised)
    ELSE IF resp.status # 200 THEN Returned(PyString(<<>>))
    ELSE IF ~resp.body.json_ok THEN Raised("JSONDecodeError")
    ELSE Returned(resp.body.doc)

\* body: [json_ok |-> the body parses as JSON, doc |-> the parsed document]
get_metadata(resp) ==
    IF resp.raised # None THEN Raised(resp.raised)
    ELSE IF resp.status # 200 THEN Returned(PyDict(<<>>))
    ELSE IF ~resp.body.json_ok THEN Raised("JSONDecodeError")
    ELSE Returned(resp.body.doc)

\* body: the bytes; raise_for_status raises on 4xx and 5xx, and every
\* exception is caught
get_pdf(resp) ==
    IF resp.raised # None THEN Returned(PyNone)
    ELSE IF resp.status >= 400 THEN Returned(PyNone)
    ELSE Returned(PyBytes(resp.body))

(***************************************************************************)
(* get_paper_paths, as a function of the listing page.                     *)
(* A listing response is [raised, status, body] with                       *)
(* body = [container |-> the div.container-fluid is there,                 *)
(*         items |-> one entry per <li>: [a |-> it has an <a href>,        *)
(*                                        href |-> the href]]              *)
(***************************************************************************)
\* fetch(): raise_for_status and every aiohttp.ClientError end in sys.exit(1)
fetch(resp) ==
    IF resp.raised = "ClientError" \/ (resp.raised = None /\ resp.status >= 400)
    THEN Raised("SystemExit")
    ELSE IF resp.raised # None THEN Raised(resp.raised)
    ELSE Returned(resp.body)

\* the parse of the fetched page and the for-li loop
ParseListing(body) ==
    IF ~body.container THEN Raised("AttributeError")
    ELSE IF \E i \in 1..Len(body.items) : ~body.items[i].a
         THEN Raised("AttributeError")
    ELSE Returned([i \in 1..Len(body.items) |-> DeriveLinks(body.items[i].href)])

\* get_paper_paths giving no papers for a year whose listing fetch failed
get_paper_pathsSkipsFailedYear(resp) ==
    LET page == fetch(resp)
    IN  IF page.raised = "SystemExit" THEN Returned(<<>>)
        ELSE IF page.raised # None THEN page
        ELSE ParseListing(page.value)

get_paper_paths(resp) ==
    LET page == fetch(resp)
    IN  IF page.raised # None THEN page ELSE ParseListing(page.value)

(***************************************************************************)
(* check_args: defined by the program, called by nothing.                  *)
(***************************************************************************)
MinStartYear == 1987

check_args(a) ==
    IF a.start_year < MinStartYear THEN Raised("SystemExit")
    ELSE IF a.start_year > a.end_year THEN Raised("SystemExit")
    ELSE Returned(PyNone)

(***************************************************************************)
(* Inputs: the command lines, pages and HTTP outcomes the runs draw from.  *)
(***************************************************************************)
MaxSpan == 0
MaxPapers == 2
MaxItems == 3
MaxIdLen == 2

\* --start_year, --end_year (absent: the resolved latest year), --output_dir
StartYears == (MinStartYear - 1)..(MinStartYear + 1)
EndYearArgs ==
    {[given |-> TRUE, val |-> y] : y \in MinStartYear..(MinStartYear + MaxSpan)}
    \union {[given |-> FALSE, val |-> 0]}

\* a path is the sequence of its components
dDotDot == <<".", ".">>
dData == <<"d", "a", "t", "a">>
dOut == <<"o", "u", "t">>
OutputDirs == {<<dOut>>, <<dDotDot, dData>>}

Argvs == [start_year : StartYears, end_year : EndYearArgs, output_dir : OutputDirs]

\* the root page the runs of main() see: "NeurIPS (1988)", "garbage"
MainRootItems == <<<<"N", "e", "u", "r", "I", "P", "S", " ", "(", "1", "9", "8", "8", ")">>,
                   <<"g", "a", "r", "b", "a", "g", "e">>>>

\* hrefs as the site writes them: /p/hash/<id>-Abstract.html
SiteHref(prefix, id) == prefix \o <<"/">> \o sHash \o <<"/">> \o id \o <<"-">> \o sAbstract \o sHtml
\* hrefs of the form .../Abstract-hash-<id>.html
FlatHref(prefix, id) == prefix \o <<"/">> \o sAbstract \o <<"-">> \o sHash \o <<"-">> \o id \o sHtml

MainHrefs == {SiteHref(<<"/", "p">>, <<"1", "a">>), SiteHref(<<"/", "p">>, <<"2", "b">>)}

NoAnchor == [a |-> FALSE, href |-> <<>>]
ListItems == {[a |-> TRUE, href |-> h] : h \in MainHrefs} \union {NoAnchor}

\* the listing pages: up to MaxPapers items, no href twice
ListingItemSeqs ==
    {s \in UNION {[1..n -> ListItems] : n \in 0..MaxPapers} :
        \A i, j \in 1..Len(s) : (i # j /\ s[i].a /\ s[j].a) => s[i].href # s[j].href}

NoBody == [container |-> FALSE, items |-> <<>>]
ListingResponses ==
    {[raised |-> None, status |-> 200, body |-> [container |-> TRUE, items |-> s]] :
        s \in ListingItemSeqs}
    \union {[raised |-> None, status |-> 200, body |-> NoBody],
            [raised |-> None, status |-> 404, body |-> NoBody],
            [raised |-> "ClientError", status |-> 0, body |-> NoBody],
            [raised |-> "TimeoutError", status |-> 0, body |-> NoBody]}

AbstractBody(h4, has_title) ==
    [h4 |-> h4, has_title |-> has_title,
     para |-> <<" ", "W", "e", "\n", " ", " ", "s", "h", "o", "w", "\t">>,
     title |-> <<"T">>, authors |-> <<<<"A">>, <<"B">>>>]
AbstractResponses ==
    {[raised |-> None, status |-> 200, body |-> AbstractBody(TRUE, TRUE)],
     [raised |-> None, status |-> 200, body |-> AbstractBody(FALSE, TRUE)],
     [raised |-> None, status |-> 200, body |-> AbstractBody(TRUE, FALSE)],
     [raised |-> None, status |-> 404, body |-> AbstractBody(FALSE, FALSE)],
     [raised |-> "ConnectionError", status |-> 0, body |-> AbstractBody(FALSE, FALSE)]}

MetaDoc == PyDict(<<[k |-> sTitle, val |-> PyString(<<"T">>)]>>)
MetadataResponses ==
    {[raised |-> None, status |-> 200, body |-> [json_ok |-> TRUE, doc |-> MetaDoc]],
     [raised |-> None, status |-> 200, body |-> [json_ok |-> FALSE, doc |-> PyNone]],
     [raised |-> None, status |-> 404, body |-> [json_ok |-> FALSE, doc |-> PyNone]],
     [raised |-> "ConnectionError", status |-> 0, body |-> [json_ok |-> FALSE, doc |-> PyNone]]}

PdfResponses ==
    {[raised |-> None, status |-> 200, body |-> <<"%", "P", "D", "F">>],
     [raised |-> None, status |-> 404, body |-> <<>>],
     [raised |-> "ConnectionError", status |-> 0, body |-> <<>>]}

(***************************************************************************)
(* main()                                                                  *)
(***************************************************************************)
Running == [code |-> -1, why |-> "running"]
\* the loop ran out: exit status 0
ExitedNormally == [code |-> 0, why |-> "end of main"]
\* sys.exit(message) and sys.exit(1): exit status 1
SysExit(why) == [code |-> 1, why |-> why]
\* an exception nothing catches: traceback, exit status 1
Uncaught(e) == [code |-> 1, why |-> e]

\* one request or filesystem call: what was asked for and, for a request,
\* the response that came back
Event(op, y, target, resp) == [op |-> op, year |-> y, target |-> target, resp |-> resp]
NoResp == [raised |-> None, status |-> 0, body |-> <<>>]

root_url == base_url \o <<"/">>
sPaperSeg == <<"/", "p", "a", "p", "e", "r", "/">>
get_conference_url(y) == base_url \o sPaperSeg \o PyStr(y)

\* the last paper of the page instead of the first
CurrentPaperLast == papers[Len(papers)]

\* zip(paper_ids, ...) and the closing break: the first paper, and only it
CurrentPaper == papers[1]

\* os.path.join('../data', str(year)): the root is the literal, not output_dir
data_root == <<dDotDot, dData>>
year_dir(y) == data_root \o <<PyStr(y)>>
save_dir(y, paper_id) == year_dir(y) \o <<paper_id>>

sAbstractJson == <<"_", "a", "b", "s", "t", "r", "a", "c", "t", ".", "j", "s", "o", "n">>
sMetadataJson == <<"_", "m", "e", "t", "a", "d", "a", "t", "a", ".", "j", "s", "o", "n">>
abstract_file(y, paper_id) == save_dir(y, paper_id) \o <<paper_id \o sAbstractJson>>
metadata_file(y, paper_id) == save_dir(y, paper_id) \o <<paper_id \o sMetadataJson>>
pdf_file(y, paper_id) == save_dir(y, paper_id) \o <<paper_id \o sPdf>>

\* os.makedirs(d, exist_ok=True): d and every ancestor of it
makedirs(d) == {SubSeq(d, 1, k) : k \in 1..Len(d)}

\* open(path, "w"): the file is there and empty; f.write(text): it holds text
WriteFile(fs, path, content) ==
    [q \in DOMAIN fs \union {path} |-> IF q = path THEN content ELSE fs[q]]

Terminate(status) ==
    /\ pc' = "terminated"
    /\ exitStatus' = status

Idle == UNCHANGED <<href, hrefId, links, latest>>

\* get_args(), then the os.path.exists(output_dir) test; check_args is not called
Begin ==
    /\ pc = "start"
    /\ \E rootRaised \in {None, "ConnectionError"} :
         LET ly == get_latest_conference_year(rootItems)
             a == [start_year |-> argv.start_year,
                   end_year |-> IF argv.end_year.given THEN argv.end_year.val ELSE ly.val,
                   output_dir |-> argv.output_dir]
         IN  /\ log' = Append(log, Event("GET_root", 0, root_url,
                                         [raised |-> rootRaised, status |-> 200,
                                          body |-> rootItems]))
             /\ IF rootRaised # None
                THEN Terminate(Uncaught(rootRaised)) /\ UNCHANGED <<args, year>>
                ELSE IF ly.raised # None
                THEN Terminate(Uncaught(ly.raised)) /\ UNCHANGED <<args, year>>
                ELSE /\ args' = a
                     /\ IF ~outExists
                        THEN Terminate(SysExit("Output directory does not exist"))
                             /\ UNCHANGED year
                        ELSE /\ pc' = "year"
                             /\ year' = a.start_year
                             /\ UNCHANGED exitStatus
    /\ UNCHANGED <<argv, rootItems, outExists, papers, abstract, metadata, pdf, dirs, files>>
    /\ Idle

\* for year in range(start_year, end_year + 1): exhausted
LoopDone ==
    /\ pc = "year"
    /\ year > args.end_year
    /\ Terminate(ExitedNormally)
    /\ UNCHANGED <<argv, rootItems, outExists, args, year, papers, abstract, metadata,
                   pdf, dirs, files, log>>
    /\ Idle

\* await get_paper_paths(year); the inner loop takes the first paper or none
GetPaperPaths ==
    /\ pc = "year"
    /\ year <= args.end_year
    /\ \E resp \in ListingResponses :
         LET r == get_paper_paths(resp)
         IN  IF r.raised = "SystemExit"
             THEN /\ log' = Append(log, Event("GET_listing", year, get_conference_url(year), resp))
                  /\ Terminate(SysExit("Error fetching"))
                  /\ UNCHANGED <<papers, year>>
             ELSE IF r.raised # None
             THEN /\ log' = Append(log, Event("GET_listing", year, get_conference_url(year), resp))
                  /\ Terminate(Uncaught(r.raised))
                  /\ UNCHANGED <<papers, year>>
             ELSE /\ log' = Append(log, Event("GET_listing", year, get_conference_url(year), resp))
                  /\ papers' = r.value
                  /\ IF r.value = <<>>
                     THEN pc' = "year" /\ year' = year + 1
                     ELSE pc' = "makedirs" /\ UNCHANGED year
                  /\ UNCHANGED exitStatus
    /\ UNCHANGED <<argv, rootItems, outExists, args, abstract, metadata, pdf, dirs, files>>
    /\ Idle

\* os.makedirs(save_dir, exist_ok=True)
MakeDirs ==
    /\ pc = "makedirs"
    /\ dirs' = dirs \union makedirs(save_dir(year, CurrentPaper.paper_id))
    /\ log' = Append(log, Event("makedirs", year, save_dir(year, CurrentPaper.paper_id), NoResp))
    /\ pc' = "get_abstract"
    /\ UNCHANGED <<argv, rootItems, outExists, args, year, papers, abstract, metadata,
                   pdf, files, exitStatus>>
    /\ Idle

GetAbstract ==
    /\ pc = "get_abstract"
    /\ \E resp \in AbstractResponses :
         LET r == get_abstract(resp)
         IN  /\ log' = Append(log, Event("GET_abstract", year, CurrentPaper.abstract_path, resp))
             /\ IF r.raised # None
                THEN Terminate(Uncaught(r.raised)) /\ UNCHANGED abstract
                ELSE abstract' = r.value /\ pc' = "get_metadata" /\ UNCHANGED exitStatus
    /\ UNCHANGED <<argv, rootItems, outExists, args, year, papers, metadata, pdf, dirs, files>>
    /\ Idle

GetMetadata ==
    /\ pc = "get_metadata"
    /\ \E resp \in MetadataResponses :
         LET r == get_metadata(resp)
         IN  /\ log' = Append(log, Event("GET_metadata", year, CurrentPaper.metadata_path, resp))
             /\ IF r.raised # None
                THEN Terminate(Uncaught(r.raised)) /\ UNCHANGED metadata
                ELSE metadata' = r.value /\ pc' = "get_pdf" /\ UNCHANGED exitStatus
    /\ UNCHANGED <<argv, rootItems, outExists, args, year, papers, abstract, pdf, dirs, files>>
    /\ Idle

GetPdf ==
    /\ pc = "get_pdf"
    /\ \E resp \in PdfResponses :
         LET r == get_pdf(resp)
         IN  /\ log' = Append(log, Event("GET_pdf", year, CurrentPaper.pdf_path, resp))
             /\ IF r.raised # None
                THEN Terminate(Uncaught(r.raised)) /\ UNCHANGED pdf
                ELSE pdf' = r.value /\ pc' = "write_abstract" /\ UNCHANGED exitStatus
    /\ UNCHANGED <<argv, rootItems, outExists, args, year, papers, abstract, metadata,
                   dirs, files>>
    /\ Idle

\* with open(..._abstract.json, "w") as f: json.dump(abstract, f, indent=4)
WriteAbstract ==
    /\ pc = "write_abstract"
    /\ files' = WriteFile(files, abstract_file(year, CurrentPaper.paper_id), json_dump(abstract))
    /\ log' = Append(log, Event("write_abstract", year,
                                abstract_file(year, CurrentPaper.paper_id), NoResp))
    /\ pc' = "write_metadata"
    /\ UNCHANGED <<argv, rootItems, outExists, args, year, papers, abstract, metadata,
                   pdf, dirs, exitStatus>>
    /\ Idle

\* with open(..._metadata.json, "w") as f: json.dump(metadata, f, indent=4)
WriteMetadata ==
    /\ pc = "write_metadata"
    /\ files' = WriteFile(files, metadata_file(year, CurrentPaper.paper_id), json_dump(metadata))
    /\ log' = Append(log, Event("write_metadata", year,
                                metadata_file(year, CurrentPaper.paper_id), NoResp))
    /\ pc' = "write_pdf"
    /\ UNCHANGED <<argv, rootItems, outExists, args, year, papers, abstract, metadata,
                   pdf, dirs, exitStatus>>
    /\ Idle

\* the PDF write guarded against an absent payload: skipped, the run goes on
WritePdfSkipsAbsent ==
    /\ pc = "write_pdf"
    /\ log' = Append(log, Event("write_pdf", year, pdf_file(year, CurrentPaper.paper_id), NoResp))
    /\ files' = IF pdf.t # "bytes" THEN files
                ELSE WriteFile(files, pdf_file(year, CurrentPaper.paper_id), pdf.v)
    /\ pc' = "year"
    /\ year' = year + 1
    /\ UNCHANGED <<argv, rootItems, outExists, args, papers, abstract, metadata, pdf, dirs,
                   exitStatus>>
    /\ Idle

\* with open(....pdf, "wb") as f: f.write(pdf); then break.
\* f.write(None) raises TypeError after open() has made the file.
WritePdf ==
    /\ pc = "write_pdf"
    /\ log' = Append(log, Event("write_pdf", year, pdf_file(year, CurrentPaper.paper_id), NoResp))
    /\ IF pdf.t # "bytes"
       THEN /\ files' = WriteFile(files, pdf_file(year, CurrentPaper.paper_id), <<>>)
            /\ Terminate(Uncaught("TypeError"))
            /\ UNCHANGED year
       ELSE /\ files' = WriteFile(files, pdf_file(year, CurrentPaper.paper_id), pdf.v)
            /\ pc' = "year"
            /\ year' = year + 1
            /\ UNCHANGED exitStatus
    /\ UNCHANGED <<argv, rootItems, outExists, args, papers, abstract, metadata, pdf, dirs>>
    /\ Idle

Init ==
    /\ pc = "start"
    /\ argv \in Argvs
    /\ rootItems = MainRootItems
    /\ outExists \in BOOLEAN
    /\ args = [start_year |-> 0, end_year |-> 0, output_dir |-> <<>>]
    /\ year = 0
    /\ papers = <<>>
    /\ abstract = PyNone
    /\ metadata = PyNone
    /\ pdf = PyNone
    /\ dirs = {}
    /\ files = <<>>
    /\ log = <<>>
    /\ exitStatus = Running
    /\ href = <<>>
    /\ hrefId = <<>>
    /\ links = DeriveLinks(<<>>)
    /\ latest = [raised |-> None, val |-> 0]

Next ==
    \/ Begin
    \/ LoopDone
    \/ GetPaperPaths
    \/ MakeDirs
    \/ GetAbstract
    \/ GetMetadata
    \/ GetPdf
    \/ WriteAbstract
    \/ WriteMetadata
    \/ WritePdf

Spec == Init /\ [][Next]_vars

(***************************************************************************)
(* SpecLinks: the Link Deriver applied to one href.                        *)
(***************************************************************************)
IdChars == {"1", "a", "-", "."}
RECURSIVE SeqsUpTo(_, _)
SeqsUpTo(S, n) ==
    IF n = 0 THEN {<<>>}
    ELSE LET shorter == SeqsUpTo(S, n - 1)
         IN  shorter \union {Append(s, c) : s \in shorter, c \in S}

PaperIds == SeqsUpTo(IdChars, MaxIdLen) \ {<<>>}
LinkPrefixes == {<<"/", "p", "a", "p", "e", "r", "/", "2", "0", "2", "0">>,
                 <<"/", "p", ".", "v">>}

MainIdle ==
    UNCHANGED <<argv, rootItems, outExists, args, year, papers, abstract, metadata,
                pdf, dirs, files, log, exitStatus>>

MainAtRest ==
    /\ argv = [start_year |-> 0, end_year |-> [given |-> FALSE, val |-> 0],
               output_dir |-> <<>>]
    /\ outExists = FALSE
    /\ args = [start_year |-> 0, end_year |-> 0, output_dir |-> <<>>]
    /\ year = 0
    /\ papers = <<>>
    /\ abstract = PyNone
    /\ metadata = PyNone
    /\ pdf = PyNone
    /\ dirs = {}
    /\ files = <<>>
    /\ log = <<>>
    /\ exitStatus = Running

LinksInit ==
    /\ pc = "href"
    /\ \E prefix \in LinkPrefixes, id \in PaperIds :
         /\ hrefId = id
         /\ href \in {SiteHref(prefix, id), FlatHref(prefix, id)}
    /\ links = DeriveLinks(<<>>)
    /\ latest = [raised |-> None, val |-> 0]
    /\ rootItems = <<>>
    /\ MainAtRest

\* one pass of the for-li loop body of get_paper_paths
Derive ==
    /\ pc = "href"
    /\ links' = DeriveLinks(href)
    /\ pc' = "derived"
    /\ UNCHANGED <<href, hrefId, latest>>
    /\ MainIdle

LinksNext == Derive

SpecLinks == LinksInit /\ [][LinksNext]_vars

(***************************************************************************)
(* SpecYears: the Year Resolver applied to the root page's list items.     *)
(***************************************************************************)
tNeurIPS2023 == <<"N", "e", "u", "r", "I", "P", "S", " ", "(", "2", "0", "2", "3", ")">>
tGarbage == <<"g", "a", "r", "b", "a", "g", "e">>
tWorkshop1999 == <<"W", "o", "r", "k", "s", "h", "o", "p", " ", "(", "1", "9", "9", "9", ")">>
ItemTexts ==
    {tNeurIPS2023, tGarbage, tWorkshop1999,
     <<>>,
     <<" ", "\n">>,
     <<"(", ")">>,
     <<"2", "0", "2", "4", " ", "(", "o", "l", "d", ")">>,
     <<"x", " ", "(", "(", "2", "0", "2", "5", ")", " ">>,
     <<"-", "5">>}

RootPages == UNION {[1..n -> ItemTexts] : n \in 0..MaxItems}

YearsInit ==
    /\ pc = "root"
    /\ rootItems \in RootPages
    /\ latest = [raised |-> None, val |-> 0]
    /\ href = <<>>
    /\ hrefId = <<>>
    /\ links = DeriveLinks(<<>>)
    /\ MainAtRest

\* the loop and the return of get_latest_conference_year
Resolve ==
    /\ pc = "root"
    /\ latest' = get_latest_conference_year(rootItems)
    /\ pc' = "resolved"
    /\ UNCHANGED <<href, hrefId, links>>
    /\ MainIdle

YearsNext == Resolve

SpecYears == YearsInit /\ [][YearsNext]_vars

(***************************************************************************)
(* Properties of the Year Resolver (SpecYears).                            *)
(***************************************************************************)
Parens == {"(", ")"}

\* text[i..j] is the last whitespace-delimited token of text
IsLastToken(text, i, j) ==
    /\ i <= j
    /\ \A k \in i..j : text[k] \notin Whitespace
    /\ (i = 1 \/ text[i - 1] \in Whitespace)
    /\ \A k \in (j + 1)..Len(text) : text[k] \in Whitespace

\* the integers the items' last tokens parse to, parentheses stripped
TokenYears(text) ==
    {PyInt(Strip(SubSeq(text, ij[1], ij[2]), Parens)).val :
        ij \in {q \in (1..Len(text)) \X (1..Len(text)) :
                   /\ IsLastToken(text, q[1], q[2])
                   /\ PyInt(Strip(SubSeq(text, q[1], q[2]), Parens)).raised = None}}

ParseableYears(items) == UNION {TokenYears(items[k]) : k \in 1..Len(items)}

ExampleRootPage == <<tNeurIPS2023, tGarbage, tWorkshop1999>>

\* C9: the Year Resolver never fails on an item; it returns the maximum of
\* the integers the items' last tokens (parentheses stripped) parse to, and
\* 2023 when none parses; the example page gives 2023.
C9_YearResolverMax ==
    pc = "resolved" =>
        /\ latest.raised = None
        /\ ParseableYears(rootItems) = {} => latest.val = 2023
        /\ ParseableYears(rootItems) # {} =>
              /\ latest.val \in ParseableYears(rootItems)
              /\ \A v \in ParseableYears(rootItems) : v <= latest.val
        /\ rootItems = ExampleRootPage => latest.val = 2023

\* a page with a year above the fallback, an item without a token and one
\* whose token does not parse
C9_Witness ==
    /\ pc = "resolved"
    /\ rootItems = <<<<" ", "\n">>, <<"x", " ", "(", "(", "2", "0", "2", "5", ")", " ">>, tGarbage>>
    /\ latest.val = 2025

(***************************************************************************)
(* Properties of the Link Deriver (SpecLinks).                             *)
(***************************************************************************)
\* href has the form .../Abstract-hash-<id>.html with <id> = hrefId
IsFlatHref == \E prefix \in LinkPrefixes : href = FlatHref(prefix, hrefId)

UrlsDerived ==
    /\ Contains(links.metadata_path, sMetadata)
    /\ Contains(links.metadata_path, sFile)
    /\ EndsWith(links.metadata_path, sJson)
    /\ Contains(links.pdf_path, sPaper)
    /\ Contains(links.pdf_path, sFile)
    /\ EndsWith(links.pdf_path, sPdf)

\* C6 as stated: for an href .../Abstract-hash-<id>.html the paper_id is <id>
\* and the metadata and PDF URLs carry the substituted tokens and extensions.
C6_PaperIdIsId ==
    (pc = "derived" /\ IsFlatHref) => (links.paper_id = hrefId /\ UrlsDerived)

\* href has the form the site's listing pages use, .../hash/<id>-Abstract.html
IsSiteHref == \E prefix \in LinkPrefixes : href = SiteHref(prefix, hrefId)

HasChar(s, c) == \E i \in 1..Len(s) : s[i] = c

\* C6 amended: the paper_id is the last "/"-segment of the href cut at its
\* first "-". For an href .../Abstract-hash-<id>.html that is "Abstract";
\* it is <id> for an href .../hash/<id>-Abstract.html whose <id> has no "-".
\* For both forms the metadata and PDF URLs are as stated.
C6_PaperIdIsFirstToken ==
    pc = "derived" =>
        /\ IsFlatHref => (links.paper_id = sAbstract /\ UrlsDerived)
        /\ (IsSiteHref /\ ~HasChar(hrefId, "-")) =>
              (links.paper_id = hrefId /\ UrlsDerived)

C6_Witness ==
    /\ pc = "derived"
    /\ IsFlatHref
    /\ hrefId = <<"1", "a">>
    /\ links.paper_id = sAbstract
    /\ UrlsDerived

(***************************************************************************)
(* Properties of main() (Spec). The log holds every request with the       *)
(* response it got, so what failed is read off the responses.              *)
(***************************************************************************)
EmptyJsonObject == <<"{", "}">>

Last(s) == s[Len(s)]

ListingIdx == {i \in 1..Len(log) : log[i].op = "GET_listing"}

\* the listing request got no page: a transport error or an error status
ListingFetchFailed(r) == r.raised # None \/ r.status >= 400

\* the listing request got a page get_paper_paths can read
ListingUsable(r) ==
    /\ ~ListingFetchFailed(r)
    /\ r.body.container
    /\ \A k \in 1..Len(r.body.items) : r.body.items[k].a

NonSuccess(r) == r.raised = None /\ r.status # 200

PdfFetchFailed(r) == r.raised # None \/ r.status >= 400

BlockOps == <<"makedirs", "GET_abstract", "GET_metadata", "GET_pdf",
              "write_abstract", "write_metadata", "write_pdf">>

\* the years the arguments ask for are rejected by check_args
ArgsInvalid ==
    check_args([start_year |-> argv.start_year,
                end_year |-> IF argv.end_year.given THEN argv.end_year.val
                             ELSE get_latest_conference_year(rootItems).val]).raised
        = "SystemExit"

\* C1: with start_year < 1987 or start_year > end_year the run ends in a
\* fatal exit before any listing page is fetched and before any directory or
\* file is created; start_year = end_year = 1987 is accepted.
C1_InvalidYearsRejected ==
    /\ ArgsInvalid =>
          /\ pc = "terminated" => exitStatus.code # 0
          /\ ListingIdx = {}
          /\ dirs = {}
          /\ DOMAIN files = {}
    /\ (/\ argv.start_year = MinStartYear
        /\ argv.end_year = [given |-> TRUE, val |-> MinStartYear]
        /\ outExists
        /\ pc # "start"
        /\ log[1].resp.raised = None) =>
          \/ (pc = "year" /\ year = MinStartYear /\ ListingIdx = {})
          \/ (ListingIdx # {} /\ log[2].year = MinStartYear)

\* C2: every directory made and every file written lies under
\* <output_dir>/<year>/<paper_id>/, output_dir being the --output_dir argument.
C2_WritesUnderOutputDir ==
    ~ArgsInvalid =>
        /\ \A i \in 1..Len(log) :
              log[i].op = "makedirs" =>
                 /\ Len(log[i].target) = Len(args.output_dir) + 2
                 /\ StartsWith(log[i].target, args.output_dir \o <<PyStr(log[i].year)>>)
        /\ \A f \in DOMAIN files : StartsWith(f, args.output_dir)

\* C3: after a non-success status of the abstract page, get_abstract returns
\* an empty record, the run goes on to the metadata and PDF fetches, and
\* <paper_id>_abstract.json holds exactly {}.
C3_FailedAbstractWritesEmptyObject ==
    ~ArgsInvalid => \A i \in 1..Len(log) :
        (log[i].op = "GET_abstract" /\ NonSuccess(log[i].resp)) =>
           /\ Len(log) = i => (pc = "get_metadata" /\ abstract = PyDict(<<>>))
           /\ Len(log) >= i + 3 =>
                 /\ log[i + 3].op = "write_abstract"
                 /\ files[log[i + 3].target] = EmptyJsonObject

\* C4: after a non-success status of the metadata document (the abstract
\* fetch having completed), get_metadata returns an empty mapping, the run
\* goes on whatever the PDF fetch gives, and <paper_id>_metadata.json holds
\* exactly {}.
C4_FailedMetadataWritesEmptyObject ==
    \A i \in 1..Len(log) :
        (log[i].op = "GET_metadata" /\ NonSuccess(log[i].resp)) =>
           /\ Len(log) = i => (pc = "get_pdf" /\ metadata.t = "dict" /\ metadata.v = <<>>)
           /\ Len(log) = i + 1 => (log[i + 1].op = "GET_pdf" /\ pc = "write_abstract")
           /\ Len(log) = i + 2 => pc = "write_metadata"
           /\ Len(log) >= i + 3 =>
                 /\ log[i + 3].op = "write_metadata"
                 /\ log[i + 3].year = log[i].year
                 /\ files[log[i + 3].target] = EmptyJsonObject

\* the metadata fetch got 404, the PDF fetch failed too, and the file is there
C4_Witness ==
    /\ Len(log) >= 5
    /\ log[Len(log) - 1].op = "write_metadata"
    /\ log[Len(log) - 4].op = "GET_metadata"
    /\ log[Len(log) - 4].resp.status = 404
    /\ PdfFetchFailed(log[Len(log) - 3].resp)
    /\ files[log[Len(log) - 1].target] = EmptyJsonObject
    /\ pc = "terminated"

\* C5: a failed PDF fetch is not fatal: after it the process runs on, ends
\* normally, or ends on a listing-page fetch failure.
C5_PdfFailureNotFatal ==
    ~ArgsInvalid => \A i \in 1..Len(log) :
        (log[i].op = "GET_pdf" /\ PdfFetchFailed(log[i].resp)) =>
           \/ exitStatus.code \in {-1, 0}
           \/ (Last(log).op = "GET_listing" /\ ListingFetchFailed(Last(log).resp))

(***************************************************************************)
(* The order of a run.                                                     *)
(***************************************************************************)
\* no request of the run failed: each got a page or document its fetcher
\* returned a full result for
NoFetchFailed ==
    \A i \in 1..Len(log) :
        /\ log[i].op = "GET_root" => log[i].resp.raised = None
        /\ log[i].op = "GET_listing" => ListingUsable(log[i].resp)
        /\ log[i].op = "GET_abstract" =>
              (~NonSuccess(log[i].resp) /\ log[i].resp.raised = None
               /\ log[i].resp.body.h4 /\ log[i].resp.body.has_title)
        /\ log[i].op = "GET_metadata" =>
              (~NonSuccess(log[i].resp) /\ log[i].resp.raised = None
               /\ log[i].resp.body.json_ok)
        /\ log[i].op = "GET_pdf" => ~PdfFetchFailed(log[i].resp)

ListItemCount(i) == Len(log[i].resp.body.items)

Archived(y) == Cardinality({j \in 1..Len(log) : log[j].op = "write_pdf" /\ log[j].year = y})

Min(a, b) == IF a <= b THEN a ELSE b

\* C7: in a run (output_dir existing) where no fetch fails, the listing
\* pages requested are those of start_year, start_year + 1, ... up to
\* end_year, one each and in this order; a year whose page has n list items
\* is followed by the seven steps of its first paper (abstract, metadata and
\* PDF fetched in that order, then written) when n >= 1 and by nothing when
\* n = 0, then by the next year; nothing errs, and when the process has
\* ended it has ended normally with min(1, n) papers archived for each year
\* of the range.
C7_YearsInOrderFirstPaperOnly ==
    (pc # "start" /\ outExists /\ NoFetchFailed) =>
        /\ exitStatus.code \in {-1, 0}
        /\ pc # "terminated" => ENABLED Next
        /\ \A i \in ListingIdx :
              /\ log[i].year = args.start_year + Cardinality({j \in ListingIdx : j < i})
              /\ log[i].year <= args.end_year
              /\ log[i].target = get_conference_url(log[i].year)
              /\ ListItemCount(i) = 0 =>
                    (i < Len(log) => log[i + 1].op = "GET_listing")
              /\ ListItemCount(i) >= 1 =>
                    /\ \A k \in 1..7 :
                          i + k <= Len(log) =>
                             (log[i + k].op = BlockOps[k] /\ log[i + k].year = log[i].year)
                    /\ i + 2 <= Len(log) =>
                          log[i + 2].target = base_url \o log[i].resp.body.items[1].href
                    /\ i + 7 <= Len(log) =>
                          {log[i + 5].target, log[i + 6].target, log[i + 7].target}
                              \subseteq DOMAIN files
                    /\ i + 8 <= Len(log) => log[i + 8].op = "GET_listing"
        /\ pc = "terminated" =>
              /\ exitStatus = ExitedNormally
              /\ \A y \in args.start_year..args.end_year :
                    \E i \in ListingIdx :
                       /\ log[i].year = y
                       /\ Archived(y) = Min(1, ListItemCount(i))
              /\ Cardinality(ListingIdx) =
                    Cardinality(args.start_year..args.end_year)

\* a finished run of two years: the first year's page lists two papers, the
\* second year's none
C7_Witness ==
    /\ pc = "terminated"
    /\ outExists
    /\ NoFetchFailed
    /\ args.start_year = MinStartYear
    /\ Cardinality(ListingIdx) = 2
    /\ ListItemCount(2) = 2
    /\ ListItemCount(Len(log)) = 0
    /\ Archived(MinStartYear) = 1

HasYear(path, y) == \E k \in 1..Len(path) : path[k] = PyStr(y)

\* the step took the listing request of a year and got no page
ListingFailsNow ==
    /\ Len(log') = Len(log) + 1
    /\ Last(log').op = "GET_listing"
    /\ ListingFetchFailed(Last(log').resp)

\* C8: when the listing-page fetch of year y fails the process ends at once
\* with a non-zero status: the failing step touches no directory and no
\* file, nothing follows it (no request, no directory, no write, no listing
\* of a later year), nothing was made for year y, and no step is taken from
\* the ended process.
C8_ListingFailureEndsRun ==
    /\ [](\A i \in ListingIdx :
            ListingFetchFailed(log[i].resp) =>
               /\ i = Len(log)
               /\ pc = "terminated"
               /\ exitStatus.code # 0
               /\ \A j \in 1..(i - 1) : log[j].year < log[i].year
               /\ \A d \in dirs \union DOMAIN files : ~HasYear(d, log[i].year))
    /\ [][/\ ListingFailsNow => UNCHANGED <<dirs, files>>
          /\ pc = "terminated" => UNCHANGED <<dirs, files, log>>]_vars

\* the second year's listing fetch fails after the first year's paper was archived
C8_Witness ==
    /\ pc = "terminated"
    /\ Len(log) >= 2
    /\ Last(log).op = "GET_listing"
    /\ ListingFetchFailed(Last(log).resp)
    /\ Last(log).year = MinStartYear + 1
    /\ Archived(MinStartYear) = 1
    /\ DOMAIN files # {}

\* C10: per paper the directory is made first, then the three fetches, then
\* the writes of the abstract JSON, the metadata JSON and the PDF, in this
\* order. When the PDF fetch gave nothing, the PDF write fails and ends the
\* process: the directory then holds the full abstract and metadata JSON
\* files and an empty PDF file, and nothing follows.
C10_WriteOrderAndFailedPdfWrite ==
    /\ \A i \in 1..Len(log) :
          log[i].op = "makedirs" =>
             /\ log[i].target \in dirs
             /\ \A k \in 1..7 :
                   i + k - 1 <= Len(log) =>
                      /\ log[i + k - 1].op = BlockOps[k]
                      /\ log[i + k - 1].year = log[i].year
                      /\ k >= 5 =>
                            /\ StartsWith(log[i + k - 1].target, log[i].target)
                            /\ log[i + k - 1].target \in DOMAIN files
    /\ \A j \in 1..Len(log) :
          \A k \in 2..7 :
             log[j].op = BlockOps[k] => (j - k + 1 >= 1 /\ log[j - k + 1].op = "makedirs")
    /\ \A i \in 1..Len(log) :
          (log[i].op = "GET_pdf" /\ PdfFetchFailed(log[i].resp)) =>
             /\ Len(log) = i => (pdf = PyNone /\ pc = "write_abstract")
             /\ Len(log) = i + 2 =>
                   (pc = "write_pdf" /\ log[i + 2].target \in DOMAIN files)
             /\ Len(log) >= i + 3 =>
                   /\ Len(log) = i + 3
                   /\ pc = "terminated"
                   /\ exitStatus.code # 0
                   /\ log[i - 3].target \in dirs
                   /\ files[log[i + 1].target] = json_dump(abstract)
                   /\ files[log[i + 1].target] # <<>>
                   /\ files[log[i + 2].target] = json_dump(metadata)
                   /\ files[log[i + 2].target] # <<>>
                   /\ files[log[i + 3].target] = <<>>

C10_Witness ==
    /\ pc = "terminated"
    /\ Len(log) >= 8
    /\ Last(log).op = "write_pdf"
    /\ PdfFetchFailed(log[Len(log) - 3].resp)
    /\ files[Last(log).target] = <<>>
    /\ files[log[Len(log) - 1].target] # <<>>
    /\ exitStatus.why = "TypeError"

====
